---- MODULE Spec2Model ----
(***************************************************************************)
(* Verification model of leonidee/spark-hadoop-automation-in-cloud:        *)
(*   - TelegramNotifyer.notify_on_task_failure  (src/src/notifyer)         *)
(*   - SparkHelper._get_src_paths               (src/src/helper)           *)
(*   - SparkSubmitter.submit_tags_job           (src/src/submitter.py)     *)
(*   - SparkRunner nearest-city attribution     (src/jobs/project_job.py)  *)
(* Each component has its own specification over the shared variables;     *)
(* the variables of the other components stay at their idle values.        *)
(***************************************************************************)
EXTENDS Integers, Sequences, FiniteSets, TLC

(***************************************************************************)
(* Bounds                                                                  *)
(***************************************************************************)
MaxRetries == 3

\* calls of notify_on_task_failure on one notifier instance
MaxCalls == 2

\* cap of the attempt counter when the exhaustion test is never met
MaxTry == MaxRetries

RetryValues == {-1, 0} \cup (1..MaxRetries)

DelayValues == {30, 60}

\* timeout=None: the call waits without limit
NoTimeout == -1

NoResponse == [fault |-> "unset", status |-> 0, text |-> ""]

VARIABLES
  \* ---- TelegramNotifyer ----
  MAX_RETRIES,      \* self._MAX_RETRIES
  DELAY,            \* self._DELAY
  SESSION_TIMEOUT,  \* self._SESSION_TIMEOUT
  n_pc,             \* position inside notify_on_task_failure
  TRY,              \* _TRY
  OK,               \* _OK
  response,         \* response of the last requests.post
  events,           \* what the current call did so far: extractions, sends, sleeps
  n_outcome,        \* how the current call ended
  calls             \* how many calls the notifier instance has begun

nvars == <<MAX_RETRIES, DELAY, SESSION_TIMEOUT, n_pc, TRY, OK, response, events, n_outcome, calls>>

VARIABLES
  \* ---- SparkHelper._get_src_paths ----
  keeper,           \* ArgsKeeper: date, depth, src_path
  event_type,       \* event type of the partitions
  storage,          \* objects on S3: [Bucket, Key]
  h_pc,             \* position inside _get_src_paths
  h_i,              \* how many values the generator `paths` has produced
  existing_paths,   \* existing_paths
  queries,          \* the list_objects calls made so far, with their outcome
  h_outcome,        \* how the call ended
  h_result          \* the returned set

hvars == <<keeper, event_type, storage, h_pc, h_i, existing_paths, queries, h_outcome, h_result>>

VARIABLES
  \* ---- SparkSubmitter.submit_tags_job ----
  session_timeout,  \* self.session_timeout
  holder,           \* TagsJobArgsHolder
  s_pc,             \* position inside submit_tags_job
  s_posts,          \* the POSTs made so far
  s_response,       \* response of post
  s_decoded,        \* whether response.json() was called
  exit_status,      \* argument of sys.exit, -1 while the process runs
  s_outcome         \* how the call ended

svars == <<session_timeout, holder, s_pc, s_posts, s_response, s_decoded, exit_status, s_outcome>>

VARIABLES
  \* ---- SparkRunner: nearest-city attribution ----
  messages,         \* sdf: the message rows given to the attribution
  cities,           \* cities_coords_sdf
  j_pc,             \* position inside the dataframe pipeline
  j_op,             \* the method that runs it
  joined,           \* the cross join with the distance column
  ranked,           \* the rows kept by city_dist_rnk == 1
  j_result,         \* the resulting dataframe
  windowed,         \* compute_step_one: the rows in window order with prev_city
  visits,           \* compute_step_one: the rows kept by visit_flg == 1
  travels           \* compute_step_one: user_id, travel_array, travel_count

tvars == <<windowed, visits, travels>>

jvars == <<messages, cities, j_pc, j_op, joined, ranked, j_result, tvars>>

vars == <<nvars, hvars, svars, jvars>>

(***************************************************************************)
(* requests: what one POST can produce                                     *)
(***************************************************************************)
CaughtFaults == {"ConnectionError", "Timeout", "InvalidSchema"}

UncaughtFaults == {"TooManyRedirects"}

Statuses == {200, 201, 404}

\* body texts of a 200 answer of the chat API
OkBodies == {"{\"ok\": true}", "{\"ok\": false}", "{\"description\": \"x\"}", "[]", "<html>"}

PostOutcomes ==
  [fault : CaughtFaults \cup UncaughtFaults, status : {0}, text : {""}]
    \cup [fault : {"none"}, status : Statuses \ {200}, text : {""}]
    \cup [fault : {"none"}, status : {200}, text : OkBodies]

\* Response.raise_for_status: HTTPError for 4xx and 5xx
RaisesHTTPError(r) == r.fault = "none" /\ r.status >= 400 /\ r.status < 600

\* Response.json on the body texts above
ResponseJson(text) ==
  CASE text = "{\"ok\": true}"  -> [kind |-> "dict", keys |-> {"ok"}, ok |-> TRUE]
    [] text = "{\"ok\": false}" -> [kind |-> "dict", keys |-> {"ok"}, ok |-> FALSE]
    [] text = "{\"description\": \"x\"}" -> [kind |-> "dict", keys |-> {"description"}, ok |-> FALSE]
    [] text = "[]"              -> [kind |-> "list", keys |-> {}, ok |-> FALSE]
    [] OTHER                    -> [kind |-> "JSONDecodeError", keys |-> {}, ok |-> FALSE]

\* the test written as `"ok" in response.keys()`
BodyOkKeyOnly(json) == json.kind = "dict" /\ "ok" \in json.keys

\* `"ok" in response.keys() and response["ok"]`
BodyOk(json) == json.kind = "dict" /\ "ok" \in json.keys /\ json.ok

(***************************************************************************)
(* TelegramNotifyer                                                        *)
(***************************************************************************)
ExtractEvent(res) == [ev |-> "extract", res |-> res, resp |-> NoResponse, timeout |-> NoTimeout, delay |-> 0]

\* requests.post(url=URL): no timeout argument is passed
SendEvent(r) == [ev |-> "send", res |-> "", resp |-> r, timeout |-> NoTimeout, delay |-> 0]

SleepEvent(d) == [ev |-> "sleep", res |-> "", resp |-> NoResponse, timeout |-> NoTimeout, delay |-> d]

\* BaseRequester.__init__ (src/base) keeps the three arguments as
\* _MAX_RETRIES, _DELAY and _SESSION_TIMEOUT
BaseRequesterInit(max_retries, retry_delay, session_timeout_) ==
  /\ MAX_RETRIES = max_retries
  /\ DELAY = retry_delay
  /\ SESSION_TIMEOUT = session_timeout_

NotifyStart ==
  /\ \E max_retries \in RetryValues, retry_delay \in DelayValues :
       BaseRequesterInit(max_retries, retry_delay, 120)
  /\ n_pc = "idle"
  /\ TRY = 0
  /\ OK = FALSE
  /\ response = NoResponse
  /\ events = <<>>
  /\ n_outcome = "none"
  /\ calls = 0

\* entry of notify_on_task_failure: _TRY = 1, _OK = False
NotifyCall ==
  /\ n_pc \in {"idle", "done"}
  /\ calls < MaxCalls
  /\ calls' = calls + 1
  /\ n_pc' = "extract"
  /\ TRY' = 1
  /\ OK' = FALSE
  /\ response' = NoResponse
  /\ events' = <<>>
  /\ n_outcome' = "none"
  /\ UNCHANGED <<MAX_RETRIES, DELAY, SESSION_TIMEOUT>>

\* the exhaustion test written as `_TRY > self._MAX_RETRIES`
RetryOrRaiseLate(done, err, again) ==
  IF TRY > MAX_RETRIES
    THEN /\ n_outcome' = err
         /\ n_pc' = "done"
         /\ events' = done
         /\ UNCHANGED TRY
    ELSE /\ TRY < MaxTry
         /\ TRY' = TRY + 1
         /\ events' = Append(done, SleepEvent(DELAY))
         /\ n_pc' = again
         /\ UNCHANGED n_outcome

\* the exhaustion test shared by every failure branch:
\* `if _TRY == self._MAX_RETRIES: raise err  else: _TRY += 1; sleep(self._DELAY); continue`
\* (done is what the call did up to and including the failed attempt)
RetryOrRaise(done, err, again) ==
  IF TRY = MAX_RETRIES
    THEN /\ n_outcome' = err
         /\ n_pc' = "done"
         /\ events' = done
         /\ UNCHANGED TRY
    ELSE /\ TRY < MaxTry
         /\ TRY' = TRY + 1
         /\ events' = Append(done, SleepEvent(DELAY))
         /\ n_pc' = again
         /\ UNCHANGED n_outcome

\* the try block of the first loop succeeds: break
ExtractOk ==
  /\ n_pc = "extract"
  /\ events' = Append(events, ExtractEvent("ok"))
  /\ n_pc' = "compose"
  /\ UNCHANGED <<MAX_RETRIES, DELAY, SESSION_TIMEOUT, calls, TRY, OK, response, n_outcome>>

\* the except clause swallowing the error and leaving the loop
ExtractFailSwallowed ==
  /\ n_pc = "extract"
  /\ \E e \in {"KeyError", "ValueError"} :
       events' = Append(events, ExtractEvent(e))
  /\ n_pc' = "compose"
  /\ UNCHANGED <<MAX_RETRIES, DELAY, SESSION_TIMEOUT, calls, TRY, OK, response, n_outcome>>

\* except (KeyError, ValueError)
ExtractFail ==
  /\ n_pc = "extract"
  /\ \E e \in {"KeyError", "ValueError"} :
       RetryOrRaise(Append(events, ExtractEvent(e)), "AirflowContextError", "extract")
  /\ UNCHANGED <<MAX_RETRIES, DELAY, SESSION_TIMEOUT, calls, OK, response>>

\* any other error of the try block (e.g. task_instance without task_id) is not caught
ExtractEscape ==
  /\ n_pc = "extract"
  /\ events' = Append(events, ExtractEvent("AttributeError"))
  /\ n_outcome' = "AttributeError"
  /\ n_pc' = "done"
  /\ UNCHANGED <<MAX_RETRIES, DELAY, SESSION_TIMEOUT, calls, TRY, OK, response>>

\* the second loop going on with the counter of the first one
ComposeNoReset ==
  /\ n_pc = "compose"
  /\ n_pc' = "post"
  /\ UNCHANGED <<MAX_RETRIES, DELAY, SESSION_TIMEOUT, calls, TRY, OK, response, events, n_outcome>>

\* MSG, URL are built and the counter is reset: _TRY = 1
Compose ==
  /\ n_pc = "compose"
  /\ TRY' = 1
  /\ n_pc' = "post"
  /\ UNCHANGED <<MAX_RETRIES, DELAY, SESSION_TIMEOUT, calls, OK, response, events, n_outcome>>

\* `while not _OK: ... response = requests.post(url=URL)`
Post ==
  /\ n_pc = "post"
  /\ ~OK
  /\ \E r \in PostOutcomes :
       /\ response' = r
       /\ events' = Append(events, SendEvent(r))
  /\ n_pc' = "posted"
  /\ UNCHANGED <<MAX_RETRIES, DELAY, SESSION_TIMEOUT, calls, TRY, OK, n_outcome>>

\* except (HTTPError, InvalidSchema, ConnectionError, Timeout)
CatchRequestError ==
  /\ n_pc = "posted"
  /\ response.fault \in CaughtFaults \/ RaisesHTTPError(response)
  /\ RetryOrRaise(events, "EnableToSendMessageError", "post")
  /\ UNCHANGED <<MAX_RETRIES, DELAY, SESSION_TIMEOUT, calls, OK, response>>

\* an error of requests.post outside the except clause propagates
PostEscape ==
  /\ n_pc = "posted"
  /\ response.fault \in UncaughtFaults
  /\ n_outcome' = response.fault
  /\ n_pc' = "done"
  /\ UNCHANGED <<MAX_RETRIES, DELAY, SESSION_TIMEOUT, calls, TRY, OK, response, events>>

NoRequestError(r) == r.fault = "none" /\ ~RaisesHTTPError(r)

\* status 200, body decoded, `"ok" in response.keys() and response["ok"]`: _OK = True; break
SendSuccess ==
  /\ n_pc = "posted"
  /\ NoRequestError(response)
  /\ response.status = 200
  /\ ResponseJson(response.text).kind = "dict"
  /\ BodyOk(ResponseJson(response.text))
  /\ OK' = TRUE
  /\ n_outcome' = "returned"
  /\ n_pc' = "done"
  /\ UNCHANGED <<MAX_RETRIES, DELAY, SESSION_TIMEOUT, calls, TRY, response, events>>

\* status 200, body decoded to a mapping without a true ok
SendNotOk ==
  /\ n_pc = "posted"
  /\ NoRequestError(response)
  /\ response.status = 200
  /\ ResponseJson(response.text).kind = "dict"
  /\ ~BodyOk(ResponseJson(response.text))
  /\ RetryOrRaise(events, "EnableToSendMessageError", "post")
  /\ UNCHANGED <<MAX_RETRIES, DELAY, SESSION_TIMEOUT, calls, OK, response>>

\* status 200, response.json() raises JSONDecodeError, or the decoded value
\* has no keys() (AttributeError): neither is caught
SendDecodeEscape ==
  /\ n_pc = "posted"
  /\ NoRequestError(response)
  /\ response.status = 200
  /\ ResponseJson(response.text).kind # "dict"
  /\ n_outcome' = (IF ResponseJson(response.text).kind = "list"
                     THEN "AttributeError" ELSE "JSONDecodeError")
  /\ n_pc' = "done"
  /\ UNCHANGED <<MAX_RETRIES, DELAY, SESSION_TIMEOUT, calls, TRY, OK, response, events>>

\* the else branch of `if response.status_code == 200`
SendNot200 ==
  /\ n_pc = "posted"
  /\ NoRequestError(response)
  /\ response.status # 200
  /\ RetryOrRaise(events, "EnableToSendMessageError", "post")
  /\ UNCHANGED <<MAX_RETRIES, DELAY, SESSION_TIMEOUT, calls, OK, response>>

NotifyStep ==
  \/ NotifyCall
  \/ ExtractOk
  \/ ExtractFail
  \/ ExtractEscape
  \/ Compose
  \/ Post
  \/ CatchRequestError
  \/ PostEscape
  \/ SendSuccess
  \/ SendNotOk
  \/ SendDecodeEscape
  \/ SendNot200

(***************************************************************************)
(* SparkHelper._get_src_paths                                              *)
(***************************************************************************)
MaxDepth == 3

DepthValues == {-1, 0} \cup (1..MaxDepth)

\* the calendar, as far as the model needs it: consecutive days across a
\* month boundary
Calendar == <<"2022-02-25", "2022-02-26", "2022-02-27", "2022-02-28", "2022-03-01", "2022-03-02">>

EventTypes == {"message", "reaction"}

\* a path is the sequence of its "/"-separated segments;
\* "s3a://data-ice-lake-05/messager-data/geo-events"
SrcPath == <<"s3a:", "", "data-ice-lake-05", "messager-data", "geo-events">>

\* datetime.strptime(s, "%Y-%m-%d").date(), as the day number in Calendar
Strptime(s) == CHOOSE d \in 1..Len(Calendar) : Calendar[d] = s

\* str(date)
StrDate(d) == Calendar[d]

\* range(1, n + 1)
RangeFromOne(n) == 1..n

\* range(n)
Range(n) == 0..(n - 1)

\* f"{keeper.src_path}/event_type={event_type}/date=" + str(date - timedelta(days=i))
CandidatePath(i) ==
  keeper.src_path \o <<"event_type=" \o event_type, "date=" \o StrDate(Strptime(keeper.date) - i)>>

\* Bucket=path.split(sep="/")[2]
BucketOf(path) == path[3]

\* Prefix="/".join(path.split(sep="/")[3:])
PrefixOf(path) == SubSeq(path, 4, Len(path))

IsPrefix(p, k) == Len(p) <= Len(k) /\ SubSeq(k, 1, Len(p)) = p

\* the objects a listing of Bucket under Prefix finds; the response has the
\* key Contents exactly when there is one
ListObjects(bucket, prefix) == {o \in storage : o.Bucket = bucket /\ IsPrefix(prefix, o.Key)}

\* s3.list_objects(Bucket=..., MaxKeys=5, Prefix=...): the client is built
\* without a timeout configuration and the call passes none
Query(path, result) ==
  [Bucket |-> BucketOf(path), Prefix |-> PrefixOf(path), MaxKeys |-> 5,
   timeout |-> NoTimeout, result |-> result]

\* a partition directory holding one data file
Partition(et, d) ==
  [Bucket |-> SrcPath[3],
   Key |-> <<SrcPath[4], SrcPath[5], "event_type=" \o et, "date=" \o Calendar[d], "part-0.parquet">>]

HelperIdle ==
  /\ keeper = [date |-> Calendar[Len(Calendar)], depth |-> 1, src_path |-> SrcPath]
  /\ event_type = "message"
  /\ storage = {}
  /\ h_pc = "idle"
  /\ h_i = 0
  /\ existing_paths = <<>>
  /\ queries = <<>>
  /\ h_outcome = "none"
  /\ h_result = {}

HelperStart ==
  /\ keeper \in [date : {Calendar[Len(Calendar) - 1], Calendar[Len(Calendar)]},
                 depth : DepthValues, src_path : {SrcPath}]
  /\ event_type \in EventTypes
  /\ \E days \in SUBSET (1..Len(Calendar)) :
       storage = {Partition("message", d) : d \in days}
                   \cup {Partition("reaction", Len(Calendar))}
  /\ h_pc = "idle"
  /\ h_i = 0
  /\ existing_paths = <<>>
  /\ queries = <<>>
  /\ h_outcome = "none"
  /\ h_result = {}

\* entry of _get_src_paths: the client, the date, the generator, existing_paths = []
GetSrcPaths ==
  /\ h_pc = "idle"
  /\ h_pc' = "loop"
  /\ h_i' = 0
  /\ existing_paths' = <<>>
  /\ UNCHANGED <<keeper, event_type, storage, queries, h_outcome, h_result>>

\* one pass of `for path in paths` whose listing has Contents
ListFound ==
  /\ h_pc = "loop"
  /\ h_i \in Range(keeper.depth)
  /\ LET path == CandidatePath(h_i)
     IN  /\ ListObjects(BucketOf(path), PrefixOf(path)) # {}
         /\ queries' = Append(queries, Query(path, "Contents"))
         /\ existing_paths' = Append(existing_paths, path)
  /\ h_i' = h_i + 1
  /\ UNCHANGED <<keeper, event_type, storage, h_pc, h_outcome, h_result>>

\* one pass whose listing has no Contents: continue
ListEmpty ==
  /\ h_pc = "loop"
  /\ h_i \in Range(keeper.depth)
  /\ LET path == CandidatePath(h_i)
     IN  /\ ListObjects(BucketOf(path), PrefixOf(path)) = {}
         /\ queries' = Append(queries, Query(path, "empty"))
  /\ h_i' = h_i + 1
  /\ UNCHANGED <<keeper, event_type, storage, h_pc, existing_paths, h_outcome, h_result>>

\* the service answers the listing with an error: except ClientError
ListClientError ==
  /\ h_pc = "loop"
  /\ h_i \in Range(keeper.depth)
  /\ queries' = Append(queries, Query(CandidatePath(h_i), "ClientError"))
  /\ h_outcome' = "S3ServiceError"
  /\ h_pc' = "done"
  /\ UNCHANGED <<keeper, event_type, storage, h_i, existing_paths, h_result>>

\* the endpoint cannot be reached: botocore raises EndpointConnectionError,
\* which is not a ClientError and is not caught
ListTransportFault ==
  /\ h_pc = "loop"
  /\ h_i \in Range(keeper.depth)
  /\ queries' = Append(queries, Query(CandidatePath(h_i), "EndpointConnectionError"))
  /\ h_outcome' = "EndpointConnectionError"
  /\ h_pc' = "done"
  /\ UNCHANGED <<keeper, event_type, storage, h_i, existing_paths, h_result>>

\* the test written as `existing_paths is None`
NoDataOnlyNone(found) == FALSE

\* `if existing_paths == [] or existing_paths is None: raise S3ServiceError(...)`
NoData(found) == found = <<>>

\* after the loop: raise when nothing was found, else return set(existing_paths)
FinishScan ==
  /\ h_pc = "loop"
  /\ h_i \notin Range(keeper.depth)
  /\ IF NoData(existing_paths)
       THEN h_outcome' = "S3ServiceError" /\ h_result' = {}
       ELSE h_outcome' = "returned"
            /\ h_result' = {existing_paths[k] : k \in 1..Len(existing_paths)}
  /\ h_pc' = "done"
  /\ UNCHANGED <<keeper, event_type, storage, h_i, existing_paths, queries>>

HelperStep ==
  \/ GetSrcPaths
  \/ ListFound
  \/ ListEmpty
  \/ ListClientError
  \/ ListTransportFault
  \/ FinishScan

(***************************************************************************)
(* SparkSubmitter.submit_tags_job                                          *)
(***************************************************************************)
TimeoutValues == {60, 600, 3600}

Holders == {[tgt_path |-> "s3a://out/a"], [tgt_path |-> "s3a://out/b"]}

SubmitStatuses == {200, 201, 404, 500}

SubmitBodies ==
  {"{\"returncode\": 0}", "{\"returncode\": 1}", "{\"returncode\": 127}", "{\"stdout\": \"\"}", "[]", "<html>"}

\* MissingSchema: FAST_API_BASE_URL is unset and the url is "None/submit_tags_job"
SubmitUncaughtFaults == {"MissingSchema"}

SubmitOutcomes ==
  [fault : CaughtFaults \cup SubmitUncaughtFaults, status : {0}, text : {""}]
    \cup [fault : {"none"}, status : SubmitStatuses \ {200}, text : {""}]
    \cup [fault : {"none"}, status : {200}, text : SubmitBodies]

\* Response.json on the body texts above; has says whether the mapping has
\* the key returncode
SubmitJson(text) ==
  CASE text = "{\"returncode\": 0}"   -> [kind |-> "dict", has |-> TRUE, returncode |-> 0]
    [] text = "{\"returncode\": 1}"   -> [kind |-> "dict", has |-> TRUE, returncode |-> 1]
    [] text = "{\"returncode\": 127}" -> [kind |-> "dict", has |-> TRUE, returncode |-> 127]
    [] text = "{\"stdout\": \"\"}"    -> [kind |-> "dict", has |-> FALSE, returncode |-> 0]
    [] text = "[]"                    -> [kind |-> "list", has |-> FALSE, returncode |-> 0]
    [] OTHER                          -> [kind |-> "JSONDecodeError", has |-> FALSE, returncode |-> 0]

\* the test written as `response.get("returncode", 0) == 0`
ReturncodeDefaultZero(json) == json.returncode = 0

\* `response.get("returncode") == 0`
ReturncodeIsZero(json) == json.has /\ json.returncode = 0

SubmitIdle ==
  /\ session_timeout = 3600
  /\ holder = [tgt_path |-> "s3a://out/a"]
  /\ s_pc = "idle"
  /\ s_posts = <<>>
  /\ s_response = NoResponse
  /\ s_decoded = FALSE
  /\ exit_status = -1
  /\ s_outcome = "none"

SubmitStart ==
  /\ session_timeout \in TimeoutValues
  /\ holder \in Holders
  /\ s_pc = "idle"
  /\ s_posts = <<>>
  /\ s_response = NoResponse
  /\ s_decoded = FALSE
  /\ exit_status = -1
  /\ s_outcome = "none"

\* entry of submit_tags_job
SubmitTagsJob ==
  /\ s_pc = "idle"
  /\ s_pc' = "post"
  /\ UNCHANGED <<session_timeout, holder, s_posts, s_response, s_decoded, exit_status, s_outcome>>

\* post(url=..., timeout=self.session_timeout, data=holder.json())
SubmitPost ==
  /\ s_pc = "post"
  /\ \E r \in SubmitOutcomes : s_response' = r
  /\ s_posts' = Append(s_posts, [url |-> "/submit_tags_job", timeout |-> session_timeout, data |-> holder])
  /\ s_pc' = "posted"
  /\ UNCHANGED <<session_timeout, holder, s_decoded, exit_status, s_outcome>>

\* except (HTTPError, InvalidSchema, ConnectionError, Timeout): sys.exit(1)
SubmitCatch ==
  /\ s_pc = "posted"
  /\ s_response.fault \in CaughtFaults \/ RaisesHTTPError(s_response)
  /\ exit_status' = 1
  /\ s_outcome' = "SystemExit"
  /\ s_pc' = "done"
  /\ UNCHANGED <<session_timeout, holder, s_posts, s_response, s_decoded>>

\* an error of post outside the except clause propagates
SubmitEscape ==
  /\ s_pc = "posted"
  /\ s_response.fault \in SubmitUncaughtFaults
  /\ s_outcome' = s_response.fault
  /\ s_pc' = "done"
  /\ UNCHANGED <<session_timeout, holder, s_posts, s_response, s_decoded, exit_status>>

\* status 200 and returncode 0: the function ends normally
SubmitSucceeded ==
  /\ s_pc = "posted"
  /\ NoRequestError(s_response)
  /\ s_response.status = 200
  /\ SubmitJson(s_response.text).kind = "dict"
  /\ ReturncodeIsZero(SubmitJson(s_response.text))
  /\ s_decoded' = TRUE
  /\ s_outcome' = "returned"
  /\ s_pc' = "done"
  /\ UNCHANGED <<session_timeout, holder, s_posts, s_response, exit_status>>

\* status 200 and another returncode, or none: sys.exit(1)
SubmitNonZero ==
  /\ s_pc = "posted"
  /\ NoRequestError(s_response)
  /\ s_response.status = 200
  /\ SubmitJson(s_response.text).kind = "dict"
  /\ ~ReturncodeIsZero(SubmitJson(s_response.text))
  /\ s_decoded' = TRUE
  /\ exit_status' = 1
  /\ s_outcome' = "SystemExit"
  /\ s_pc' = "done"
  /\ UNCHANGED <<session_timeout, holder, s_posts, s_response>>

\* status 200 and a body that is no JSON mapping: response.json() or
\* response.get raises, uncaught
SubmitDecodeEscape ==
  /\ s_pc = "posted"
  /\ NoRequestError(s_response)
  /\ s_response.status = 200
  /\ SubmitJson(s_response.text).kind # "dict"
  /\ s_decoded' = TRUE
  /\ s_outcome' = (IF SubmitJson(s_response.text).kind = "list"
                     THEN "AttributeError" ELSE "JSONDecodeError")
  /\ s_pc' = "done"
  /\ UNCHANGED <<session_timeout, holder, s_posts, s_response, exit_status>>

\* no error and a status other than 200: `if response.status_code == 200`
\* has no else, the function ends
SubmitNot200 ==
  /\ s_pc = "posted"
  /\ NoRequestError(s_response)
  /\ s_response.status # 200
  /\ s_outcome' = "returned"
  /\ s_pc' = "done"
  /\ UNCHANGED <<session_timeout, holder, s_posts, s_response, s_decoded, exit_status>>

SubmitStep ==
  \/ SubmitTagsJob
  \/ SubmitPost
  \/ SubmitCatch
  \/ SubmitEscape
  \/ SubmitSucceeded
  \/ SubmitNonZero
  \/ SubmitDecodeEscape
  \/ SubmitNot200


(***************************************************************************)
(* SparkRunner._get_event_city and the same steps in compute_step_one      *)
(***************************************************************************)
MaxMsgs == 2

MessageIds == 1..MaxMsgs

\* a NULL coordinate of a message row
Null == 999

\* coordinates in degrees, on a grid where the haversine term is rational
Lats == {-60, 0, 60}

Lons == {0, 60, 120}

\* the city reference set: city_id, city_name, city_lat, city_lon
CityTable ==
  {[city_id |-> 1, city_name |-> "A", city_lat |-> 0, city_lon |-> 0],
   [city_id |-> 2, city_name |-> "B", city_lat |-> 0, city_lon |-> 120],
   [city_id |-> 3, city_name |-> "C", city_lat |-> 60, city_lon |-> 0]}

\* 2 * cos(x) for x a multiple of 60 degrees
TwoCos(deg) ==
  LET x == deg % 360
  IN  CASE x = 0            -> 2
        [] x \in {60, 300}  -> 1
        [] x \in {120, 240} -> -1
        [] OTHER            -> -2

\* 16 * distance_a, with sin(x/2)^2 = (1 - cos x) / 2:
\* distance_a = sin(dlat/2)^2 + cos(city_lat) * cos(msg_lat) * sin(dlon/2)^2
DistanceA16(msg_lat, msg_lon, city_lat, city_lon) ==
  LET dlat == msg_lat - city_lat
      dlon == msg_lon - city_lon
  IN  (8 - 4 * TwoCos(dlat)) + TwoCos(city_lat) * TwoCos(msg_lat) * (2 - TwoCos(dlon))

\* the distance column of a NULL coordinate is NULL; ascending order puts NULL first
NullDistance == -1

\* the sort key of the distance column: distance = 2 * 6371 * asin(sqrt(distance_a))
\* grows with distance_a, so rows order by distance as they order by distance_a
Distance(m, c) ==
  IF m.msg_lat = Null \/ m.msg_lon = Null
    THEN NullDistance
    ELSE DistanceA16(m.msg_lat, m.msg_lon, c.city_lat, c.city_lon)

\* sdf.crossJoin(cities_coords_sdf) with the columns up to distance
CrossJoined(sdf, coords) ==
  {[row |-> m, city |-> c, distance |-> Distance(m, c)] : m \in sdf, c \in coords}

\* Window().partitionBy("message_id")
PartitionBy(rows, id) == {x \in rows : x.row.message_id = id}

\* the rows row_number() may number 1 under orderBy(f.desc("distance"))
FirstRowsDesc(part) == {x \in part : \A y \in part : x.distance >= y.distance}

\* the rows row_number() may number 1 under orderBy(f.asc("distance")):
\* a row no other row of the partition sorts before; among equal distances
\* the engine picks
FirstRows(part) == {x \in part : \A y \in part : x.distance <= y.distance}

\* .drop(...) of _get_event_city: the message row with city_id and city_name
DropDistanceColumns(x) ==
  [message_id |-> x.row.message_id, user_id |-> x.row.user_id, msg_ts |-> x.row.msg_ts,
   msg_lat |-> x.row.msg_lat, msg_lon |-> x.row.msg_lon,
   city_id |-> x.city.city_id, city_name |-> x.city.city_name]

\* .select("user_id", "message_id", msg_ts, "city_name") of compute_step_one
SelectStepOne(x) ==
  [user_id |-> x.row.user_id, message_id |-> x.row.message_id, msg_ts |-> x.row.msg_ts,
   city_name |-> x.city.city_name]

JobIdle ==
  /\ messages = {}
  /\ cities = CityTable
  /\ j_pc = "idle"
  /\ j_op = "none"
  /\ joined = {}
  /\ ranked = {}
  /\ j_result = {}
  /\ windowed = <<>>
  /\ visits = <<>>
  /\ travels = {}

\* message_id identifies a message: one row per message_id
JobStart ==
  /\ \E ids \in SUBSET MessageIds :
       \E pos \in [ids -> (Lats \cup {Null}) \X (Lons \cup {Null})] :
         messages = {[message_id |-> i, user_id |-> 1, msg_ts |-> i,
                      msg_lat |-> pos[i][1], msg_lon |-> pos[i][2]] : i \in ids}
  /\ cities \in SUBSET CityTable
  /\ j_pc = "idle"
  /\ j_op = "none"
  /\ joined = {}
  /\ ranked = {}
  /\ j_result = {}
  /\ windowed = <<>>
  /\ visits = <<>>
  /\ travels = {}

\* _get_event_city(sdf)
GetEventCity ==
  /\ j_pc = "idle"
  /\ j_op' = "_get_event_city"
  /\ j_pc' = "join"
  /\ UNCHANGED <<messages, cities, joined, ranked, j_result>>
  /\ UNCHANGED tvars

\* compute_step_one, from the cross join on
ComputeStepOne ==
  /\ j_pc = "idle"
  /\ j_op' = "compute_step_one"
  /\ j_pc' = "join"
  /\ UNCHANGED <<messages, cities, joined, ranked, j_result>>
  /\ UNCHANGED tvars

\* crossJoin and the withColumn steps dlat, dlon, distance_a, distance_b, distance
CrossJoin ==
  /\ j_pc = "join"
  /\ joined' = CrossJoined(messages, cities)
  /\ j_pc' = "rank"
  /\ UNCHANGED <<messages, cities, j_op, ranked, j_result>>
  /\ UNCHANGED tvars

\* city_dist_rnk = row_number() over the partition, then where city_dist_rnk == 1
RankAndFilter ==
  /\ j_pc = "rank"
  /\ LET ids == {x.row.message_id : x \in joined}
     IN  \E first \in [ids -> joined] :
           /\ \A id \in ids : first[id] \in FirstRows(PartitionBy(joined, id))
           /\ ranked' = {first[id] : id \in ids}
  /\ j_pc' = "project"
  /\ UNCHANGED <<messages, cities, j_op, joined, j_result>>
  /\ UNCHANGED tvars

\* the final drop of _get_event_city
ProjectEventCity ==
  /\ j_pc = "project"
  /\ j_op = "_get_event_city"
  /\ j_result' = {DropDistanceColumns(x) : x \in ranked}
  /\ j_pc' = "done"
  /\ UNCHANGED <<messages, cities, j_op, joined, ranked>>
  /\ UNCHANGED tvars

\* the select after the attribution in compute_step_one; the method goes on
\* with the travel sequence
ProjectStepOne ==
  /\ j_pc = "project"
  /\ j_op = "compute_step_one"
  /\ j_result' = {SelectStepOne(x) : x \in ranked}
  /\ j_pc' = "travel"
  /\ UNCHANGED <<messages, cities, j_op, joined, ranked>>
  /\ UNCHANGED tvars

\* the value of a column that holds no value (lag on the first row of a
\* partition)
NullCity == "NULL"

\* the order of Window().partitionBy("user_id").orderBy(f.asc("msg_ts")): the
\* rows of a user are adjacent and ascend by msg_ts
Before(x, y) ==
  \/ x.user_id < y.user_id
  \/ x.user_id = y.user_id /\ x.msg_ts < y.msg_ts

RECURSIVE OrderBy(_)
OrderBy(rows) ==
  IF rows = {} THEN <<>>
  ELSE LET x == CHOOSE x \in rows : \A y \in rows : ~ Before(y, x)
       IN  <<x>> \o OrderBy(rows \ {x})

\* f.lag("city_name") reading the row itself instead of the one before it
LagSameRow(rows, k) == rows[k].city_name

\* f.lag("city_name") over the window: the city of the row before in the same
\* partition, no value on the first row of the partition
Lag(rows, k) ==
  IF k > 1 /\ rows[k - 1].user_id = rows[k].user_id
    THEN rows[k - 1].city_name
    ELSE NullCity

\* when((city_name != prev_city) | prev_city.isNull(), 1).otherwise(0): the
\* comparison with no value is unknown, and unknown OR true is true
VisitFlg(r) ==
  IF r.prev_city = NullCity \/ r.city_name # r.prev_city THEN 1 ELSE 0

IsVisit(r) == VisitFlg(r) = 1

\* collect_list("city_name") of one group: the values in the order of the rows
CollectList(rows, u) ==
  LET own(r) == r.user_id = u
      group  == SelectSeq(rows, own)
  IN  [k \in 1..Len(group) |-> group[k].city_name]

\* .withColumn("prev_city", f.lag("city_name").over(...))
WithPrevCity ==
  /\ j_pc = "travel"
  /\ LET rows == OrderBy(j_result)
     IN  windowed' = [k \in 1..Len(rows) |->
                        [user_id |-> rows[k].user_id, msg_ts |-> rows[k].msg_ts,
                         city_name |-> rows[k].city_name, prev_city |-> Lag(rows, k)]]
  /\ j_pc' = "lagged"
  /\ UNCHANGED <<messages, cities, j_op, joined, ranked, j_result, visits, travels>>

\* .withColumn("visit_flg", ...).where(f.col("visit_flg") == 1)
WhereVisit ==
  /\ j_pc = "lagged"
  /\ visits' = SelectSeq(windowed, IsVisit)
  /\ j_pc' = "visits"
  /\ UNCHANGED <<messages, cities, j_op, joined, ranked, j_result, windowed, travels>>

\* .groupby("user_id").agg(collect_list("city_name")).select(..., f.size(...))
GroupByUser ==
  /\ j_pc = "visits"
  /\ travels' = {[user_id |-> u, travel_array |-> CollectList(visits, u),
                  travel_count |-> Len(CollectList(visits, u))] :
                   u \in {visits[k].user_id : k \in 1..Len(visits)}}
  /\ j_pc' = "done"
  /\ UNCHANGED <<messages, cities, j_op, joined, ranked, j_result, windowed, visits>>

\* the travel sequence of compute_step_one
TravelStep ==
  \/ WithPrevCity
  \/ WhereVisit
  \/ GroupByUser

JobStep ==
  \/ GetEventCity
  \/ ComputeStepOne
  \/ CrossJoin
  \/ RankAndFilter
  \/ ProjectEventCity
  \/ ProjectStepOne
  \/ TravelStep

\* the largest number of messages in the travel runs
MaxVisits == 5

\* event.message_from, the senders
UserIds == {1, 2}

\* compute_step_one after the attribution of up to MaxVisits messages of the
\* senders, each sent from the coordinates of a city at its own time: joined
\* and ranked are what the cross join and the ranking leave for them, and
\* the nearest city of a message is the one it was sent from
TravelStart ==
  /\ \E n \in 0..MaxVisits :
       \E from \in [1..n -> UserIds], at \in [1..n -> CityTable] :
         messages = {[message_id |-> n + 1 - k, user_id |-> from[k], msg_ts |-> k,
                      msg_lat |-> at[k].city_lat, msg_lon |-> at[k].city_lon] :
                       k \in 1..n}
  /\ cities = CityTable
  /\ j_op = "compute_step_one"
  /\ j_pc = "travel"
  /\ joined = CrossJoined(messages, cities)
  /\ ranked = {x \in joined : x \in FirstRows(PartitionBy(joined, x.row.message_id))}
  /\ j_result = {SelectStepOne(x) : x \in ranked}
  /\ windowed = <<>>
  /\ visits = <<>>
  /\ travels = {}

(***************************************************************************)
(* Specifications, one per component                                       *)
(***************************************************************************)
NotifyIdle ==
  /\ BaseRequesterInit(10, 60, 120)
  /\ calls = 0
  /\ n_pc = "idle"
  /\ TRY = 0
  /\ OK = FALSE
  /\ response = NoResponse
  /\ events = <<>>
  /\ n_outcome = "none"

NotifyInit == NotifyStart /\ HelperIdle /\ SubmitIdle /\ JobIdle

NotifyNext == NotifyStep /\ UNCHANGED <<hvars, svars, jvars>>

SpecNotify == NotifyInit /\ [][NotifyNext]_vars

HelperInit == HelperStart /\ NotifyIdle /\ SubmitIdle /\ JobIdle

HelperNext == HelperStep /\ UNCHANGED <<nvars, svars, jvars>>

SpecHelper == HelperInit /\ [][HelperNext]_vars

SubmitInit == SubmitStart /\ NotifyIdle /\ HelperIdle /\ JobIdle

SubmitNext == SubmitStep /\ UNCHANGED <<nvars, hvars, jvars>>

SpecSubmit == SubmitInit /\ [][SubmitNext]_vars

JobInit == JobStart /\ NotifyIdle /\ HelperIdle /\ SubmitIdle

JobNext == JobStep /\ UNCHANGED <<nvars, hvars, svars>>

SpecJob == JobInit /\ [][JobNext]_vars

TravelInit == TravelStart /\ NotifyIdle /\ HelperIdle /\ SubmitIdle

TravelNext == TravelStep /\ UNCHANGED <<nvars, hvars, svars>>

SpecTravel == TravelInit /\ [][TravelNext]_vars

(***************************************************************************)
(* Reading the record of a call                                            *)
(***************************************************************************)
IsSend(e) == e.ev = "send"

IsSleep(e) == e.ev = "sleep"

IsExtract(e) == e.ev = "extract"

Count(seq, P(_)) == Cardinality({i \in 1..Len(seq) : P(seq[i])})

\* position of the successful extraction, 0 when there is none
ExtractedAt ==
  IF \E i \in 1..Len(events) : IsExtract(events[i]) /\ events[i].res = "ok"
    THEN CHOOSE i \in 1..Len(events) : IsExtract(events[i]) /\ events[i].res = "ok"
    ELSE 0

\* what the call did in the delivery phase
Delivery == IF ExtractedAt = 0 THEN <<>> ELSE SubSeq(events, ExtractedAt + 1, Len(events))


\* attempts at odd positions, the configured delay at even positions
Alternates(seq, Attempt(_)) ==
  \A i \in 1..Len(seq) :
    IF i % 2 = 1 THEN Attempt(seq[i]) ELSE IsSleep(seq[i]) /\ seq[i].delay = DELAY

Non200Status(e) == IsSend(e) /\ e.resp.fault = "none" /\ e.resp.status # 200

\* C1: with max_retries = N >= 1, when every send of the call is answered
\* with a non-200 status, the delivery phase is send, delay, send, ..., send:
\* never more than N sends, the configured delay exactly once between two
\* consecutive sends, and the call ends only by raising
\* EnableToSendMessageError, after exactly N sends and N-1 delays, the last
\* event being a send.
C1_ExhaustionAfterNSends ==
  (MAX_RETRIES >= 1 /\ \A i \in 1..Len(Delivery) : IsSend(Delivery[i]) => Non200Status(Delivery[i]))
    => /\ Alternates(Delivery, IsSend)
       /\ Count(Delivery, IsSend) <= MAX_RETRIES
       /\ (n_pc = "done" /\ Delivery # <<>>)
            => /\ n_outcome = "EnableToSendMessageError"
               /\ Count(Delivery, IsSend) = MAX_RETRIES
               /\ Count(Delivery, IsSleep) = MAX_RETRIES - 1
               /\ Len(Delivery) = 2 * MAX_RETRIES - 1

C1_Witness ==
  /\ n_pc = "done"
  /\ n_outcome = "EnableToSendMessageError"
  /\ MAX_RETRIES = 3
  /\ Count(Delivery, Non200Status) = 3
  /\ Count(Delivery, IsSleep) = 2
  /\ \E i \in 1..Len(Delivery) : Non200Status(Delivery[i]) /\ Delivery[i].resp.status = 404
  /\ \E i \in 1..Len(Delivery) : Non200Status(Delivery[i]) /\ Delivery[i].resp.status = 201

\* a send answered with status 200 and the body {"ok": true}
AcceptedSend(e) ==
  IsSend(e) /\ e.resp.fault = "none" /\ e.resp.status = 200 /\ e.resp.text = "{\"ok\": true}"

\* C2: a finished call has returned normally if and only if one of its sends
\* received status 200 with a JSON body whose ok is true; such a send is
\* always the last thing the call did; and when the first send is such a
\* send, the call made one send and waited no delay in the delivery phase.
C2_ReturnsIffAccepted ==
  /\ n_pc = "done" => (n_outcome = "returned" <=> \E i \in 1..Len(events) : AcceptedSend(events[i]))
  /\ \A i \in 1..Len(events) : AcceptedSend(events[i]) => i = Len(events)
  /\ (n_pc = "done" /\ Delivery # <<>> /\ AcceptedSend(Delivery[1]))
       => n_outcome = "returned" /\ Len(Delivery) = 1

C2_Witness ==
  /\ n_pc = "done"
  /\ n_outcome = "returned"
  /\ MAX_RETRIES = 3
  /\ Len(Delivery) = 3
  /\ Delivery[1].resp.text = "{\"ok\": false}"
  /\ AcceptedSend(Delivery[3])

\* the kinds of failed send the delivery phase is said to treat alike
TransportFault(r) == r.fault \in {"ConnectionError", "Timeout", "InvalidSchema"} \/ RaisesHTTPError(r)

NotOkBody(r) ==
  r.fault = "none" /\ r.status = 200 /\ r.text \in {"{\"ok\": false}", "{\"description\": \"x\"}"}

MalformedBody(r) == r.fault = "none" /\ r.status = 200 /\ r.text \in {"[]", "<html>"}

\* C3: a call whose last act was a failed send of one of the three kinds
\* (transport fault, body not ok, malformed body) ended with
\* EnableToSendMessageError on attempt number max_retries; no other error
\* left the delivery phase.
C3_FailedSendIsDeliveryFailure ==
  (/\ MAX_RETRIES >= 1
   /\ n_pc = "done"
   /\ events # <<>>
   /\ IsSend(events[Len(events)])
   /\ LET r == events[Len(events)].resp
      IN  TransportFault(r) \/ NotOkBody(r) \/ MalformedBody(r))
    => n_outcome = "EnableToSendMessageError" /\ TRY = MAX_RETRIES

ExtractFailed(e) == IsExtract(e) /\ e.res \in {"KeyError", "ValueError"}

\* C4: with max_retries = N >= 1, while every extraction attempt fails with a
\* missing key or an unparsable date, the call is extract, delay, extract,
\* ...: at most N attempts with the configured delay between them, and it
\* ends only by raising AirflowContextError after exactly N attempts and N-1
\* delays; and in every call every send comes after a successful extraction,
\* so a call that ended in AirflowContextError made no send.
C4_ExtractionExhaustion ==
  /\ (MAX_RETRIES >= 1 /\ \A i \in 1..Len(events) : IsExtract(events[i]) => ExtractFailed(events[i]))
       => /\ Alternates(events, ExtractFailed)
          /\ Count(events, ExtractFailed) <= MAX_RETRIES
          /\ (n_pc = "done")
               => /\ n_outcome = "AirflowContextError"
                  /\ Count(events, ExtractFailed) = MAX_RETRIES
                  /\ Count(events, IsSleep) = MAX_RETRIES - 1
  /\ \A i \in 1..Len(events) : IsSend(events[i]) => ExtractedAt # 0 /\ ExtractedAt < i
  /\ n_outcome = "AirflowContextError" => Count(events, IsSend) = 0

C4_Witness ==
  /\ n_pc = "done"
  /\ n_outcome = "AirflowContextError"
  /\ MAX_RETRIES = 3
  /\ Count(events, ExtractFailed) = 3
  /\ Count(events, IsSleep) = 2
  /\ \E i \in 1..Len(events) : events[i].res = "KeyError"
  /\ \E i \in 1..Len(events) : events[i].res = "ValueError"

(***************************************************************************)
(* Reading the record of a scan                                            *)
(***************************************************************************)
Faulted(q) == q.result \in {"ClientError", "EndpointConnectionError"}

NoListingFault == \A k \in 1..Len(queries) : ~Faulted(queries[k])

DayNumber == CHOOSE d \in 1..Len(Calendar) : Calendar[d] = keeper.date

\* the i-th candidate, i counted from 0: {src_path}/event_type={event_type}/date={D - i days}
Candidate(i) ==
  keeper.src_path \o <<"event_type=" \o event_type, "date=" \o Calendar[DayNumber - i]>>

\* whether the partition of the i-th candidate holds data
CandidateExists(i) == Partition(event_type, DayNumber - i) \in storage

Candidates == IF keeper.depth >= 1 THEN 0..(keeper.depth - 1) ELSE {}

\* C5: with depth N >= 1 and no faulting listing call, the queries are issued
\* for the candidates of i = 0, 1, ... in that order, one each (bucket and
\* prefix of the candidate); a finished scan has made exactly N of them; if
\* some candidate exists the scan returns, and what it returns is exactly
\* the set of existing candidates.
C5_ExactlyTheExistingCandidates ==
  (keeper.depth >= 1 /\ NoListingFault)
    => /\ Len(queries) <= keeper.depth
       /\ \A k \in 1..Len(queries) :
            /\ queries[k].Bucket = keeper.src_path[3]
            /\ queries[k].Prefix = SubSeq(Candidate(k - 1), 4, Len(Candidate(k - 1)))
            /\ queries[k].result = (IF CandidateExists(k - 1) THEN "Contents" ELSE "empty")
       /\ h_pc = "done"
            => /\ Len(queries) = keeper.depth
               /\ (\E i \in Candidates : CandidateExists(i)) => h_outcome = "returned"
               /\ h_outcome = "returned"
                    => h_result = {Candidate(i) : i \in {j \in Candidates : CandidateExists(j)}}

C5_Witness ==
  /\ h_pc = "done"
  /\ h_outcome = "returned"
  /\ keeper.depth = 3
  /\ keeper.date = "2022-03-02"
  /\ Len(queries) = 3
  /\ CandidateExists(0) /\ ~CandidateExists(1) /\ CandidateExists(2)
  /\ Cardinality(h_result) = 2
  /\ Partition(event_type, 1) \in storage

\* C6: a scan never returns an empty set; a finished scan without a faulting
\* listing call in which no candidate has data (also when depth gives no
\* candidate at all) has queried every candidate and ended with
\* S3ServiceError, returning nothing.
C6_NeverReturnsEmpty ==
  /\ h_outcome = "returned" => h_result # {}
  /\ (h_pc = "done" /\ NoListingFault /\ \A i \in Candidates : ~CandidateExists(i))
       => /\ h_outcome = "S3ServiceError"
          /\ h_result = {}
          /\ Len(queries) = Cardinality(Candidates)

C6_Witness ==
  /\ h_pc = "done"
  /\ h_outcome = "S3ServiceError"
  /\ keeper.depth = 2
  /\ Len(queries) = 2
  /\ NoListingFault
  /\ storage # {}
  /\ \A i \in Candidates : ~CandidateExists(i)

\* C7: a scan whose last listing call faulted, by a service error response or
\* by a transport fault, ended with S3ServiceError and returned no path set.
C7_AnyFaultIsS3ServiceError ==
  (h_pc = "done" /\ queries # <<>> /\ Faulted(queries[Len(queries)]))
    => h_outcome = "S3ServiceError" /\ h_result = {}

(***************************************************************************)
(* Reading the record of a submission                                      *)
(***************************************************************************)
\* C8: a call makes at most one POST, and a finished call exactly one; then
\* status 200 with returncode 0 is a normal return without exit; status 200
\* with another or no returncode is exit status 1; a transport fault or an
\* HTTP error status is exit status 1 with the body never decoded.
C8_SubmitOutcomeMapping ==
  /\ Len(s_posts) <= 1
  /\ s_pc = "done"
       => /\ Len(s_posts) = 1
          /\ (s_response.status = 200 /\ s_response.text = "{\"returncode\": 0}")
               => s_outcome = "returned" /\ exit_status = -1
          /\ (s_response.status = 200
                /\ s_response.text \in {"{\"returncode\": 1}", "{\"returncode\": 127}", "{\"stdout\": \"\"}"})
               => s_outcome = "SystemExit" /\ exit_status = 1
          /\ (s_response.fault \in {"ConnectionError", "Timeout", "InvalidSchema"}
                \/ s_response.status \in {404, 500})
               => s_outcome = "SystemExit" /\ exit_status = 1 /\ ~s_decoded

C8_Witness ==
  /\ s_pc = "done"
  /\ Len(s_posts) = 1
  /\ s_response.status = 200
  /\ s_response.text = "{\"stdout\": \"\"}"
  /\ exit_status = 1

\* C9: every outbound call on record was issued with a timeout: the sends of
\* the notifier, the listing queries of the helper, the POST of the submitter.
C9_EveryCallHasTimeout ==
  /\ \A i \in 1..Len(events) : IsSend(events[i]) => events[i].timeout # NoTimeout
  /\ \A k \in 1..Len(queries) : queries[k].timeout # NoTimeout
  /\ \A k \in 1..Len(s_posts) : s_posts[k].timeout # NoTimeout

(***************************************************************************)
(* Reading the result of the attribution                                   *)
(***************************************************************************)
ResultRowsOf(m) == {r \in j_result : r.message_id = m.message_id}

\* the cities at the least distance from the message
NearestCities(m) == {c \in cities : \A d \in cities : Distance(m, c) <= Distance(m, d)}

\* C10: with a non-empty city reference set, the finished attribution has
\* exactly one row for every input message and no other row, and the city of
\* that row is one of the reference cities at the least distance from the
\* message; of two equidistant cities exactly one is kept.
C10_OneNearestCityPerMessage ==
  (j_pc = "done" /\ cities # {})
    => /\ Cardinality(j_result) = Cardinality(messages)
       /\ \A m \in messages :
            /\ Cardinality(ResultRowsOf(m)) = 1
            /\ \A r \in ResultRowsOf(m) :
                 \E c \in NearestCities(m) : c.city_name = r.city_name

C10_Witness ==
  /\ j_pc = "done"
  /\ j_op = "compute_step_one"
  /\ cities = CityTable
  /\ Cardinality(messages) = 2
  /\ \E m \in messages :
       /\ m.msg_lat = 0 /\ m.msg_lon = 60
       /\ Cardinality(NearestCities(m)) = 2
       /\ Cardinality(ResultRowsOf(m)) = 1
       /\ \E r \in ResultRowsOf(m) : r.city_name = "B"
  /\ \E m \in messages : m.msg_lat = 60 /\ m.msg_lon = 0 /\ Cardinality(NearestCities(m)) = 1

\* C12: a submission that returned normally was answered with status 200
\* and a body whose returncode is 0; any other answer, a non-error status
\* other than 200 included, is not taken as success.
C12_ReturnsOnlyOn200Zero ==
  (s_pc = "done" /\ s_outcome = "returned")
    => s_response.status = 200 /\ s_response.text = "{\"returncode\": 0}"

\* a failed attempt that is followed by the delay and another attempt
RetryTaken == n_pc \in {"extract", "posted"} /\ TRY' = TRY + 1

\* C13: for every configured max_retries the retries are bounded: a retry is
\* taken only while the attempt counter is below max_retries, so that the
\* exhaustion test (counter equal to max_retries) is still ahead and the
\* loop ends with the domain error after finitely many failed attempts.
C13_RetryOnlyWhileAttemptsRemain == [][RetryTaken => TRY < MAX_RETRIES]_vars

\* C14: the attempt counter belongs to the call and to the phase. In the
\* extraction phase it is 1 plus the delays of this call; in the delivery
\* phase it is 1 plus the delays of the delivery phase alone, so delivery
\* starts at attempt 1 whatever the extraction phase and earlier calls used;
\* with max_retries = N >= 1 a call makes at most N extraction attempts and
\* then at most N sends.
C14_CountingLocalToCallAndPhase ==
  /\ n_pc = "extract" => TRY = 1 + Count(events, IsSleep)
  /\ n_pc \in {"post", "posted"} => TRY = 1 + Count(Delivery, IsSleep)
  /\ MAX_RETRIES >= 1
       => /\ Count(events, IsExtract) <= MAX_RETRIES
          /\ Count(Delivery, IsSend) <= MAX_RETRIES

\* a second call on the instance that used all extraction attempts and then
\* all sends
C14_Witness ==
  /\ calls = 2
  /\ n_pc = "done"
  /\ MAX_RETRIES = 3
  /\ Count(events, IsExtract) = 3
  /\ Count(events, ExtractFailed) = 2
  /\ Count(Delivery, IsSend) = 3
  /\ n_outcome = "EnableToSendMessageError"

\* the attributed messages of a user
MessagesOf(u) == {r \in j_result : r.user_id = u}

Senders == {r.user_id : r \in j_result}

\* no two messages of a user carry the same msg_ts
DistinctTimestamps ==
  \A r, q \in j_result : (r.user_id = q.user_id /\ r.msg_ts = q.msg_ts) => r = q

\* the attributed city names of a user, by msg_ts ascending: the k-th is that
\* of the message with k - 1 earlier ones
CitiesInOrder(u) ==
  [k \in 1..Cardinality(MessagesOf(u)) |->
     (CHOOSE r \in MessagesOf(u) :
        Cardinality({q \in MessagesOf(u) : q.msg_ts < r.msg_ts}) = k - 1).city_name]

\* a sequence with each run of equal neighbours collapsed to one entry
RECURSIVE Collapse(_)
Collapse(s) ==
  IF Len(s) <= 1 THEN s
  ELSE LET front == Collapse(SubSeq(s, 1, Len(s) - 1))
       IN  IF s[Len(s)] = s[Len(s) - 1] THEN front ELSE Append(front, s[Len(s)])

====
